---- MODULE Spec2Model ----
(***************************************************************************)
(* umu-wrapper: one run of the command line tool.  A run loads the primary *)
(* configuration document, merges the documents of the additional-source   *)
(* directory, resolves the requested profile through its template and the  *)
(* global defaults, applies the trailing-argument override and hands the   *)
(* environment, executable and arguments to the launcher.                  *)
(*                                                                         *)
(* Option<T> is modelled as a sequence of length at most one:              *)
(*   None = <<>>, Some(v) = <<v>>.                                         *)
(***************************************************************************)
EXTENDS Integers, Sequences, FiniteSets, TLC

None == <<>>
Some(v) == <<v>>
IsSome(o) == o # None
Unwrap(o) == o[1]
\* Option::or_else / Option::or
OrElse(a, b) == IF IsSome(a) THEN a ELSE b
\* Option::unwrap_or
UnwrapOr(o, d) == IF IsSome(o) THEN Unwrap(o) ELSE d
Opt(v) == {None, Some(v)}

(***************************************************************************)
(* Bounds of the model.                                                    *)
(***************************************************************************)
\* largest number of documents in the additional-source directory
MaxSources == 2
\* largest number of trailing arguments of the run subcommand
MaxArgs == 2

(***************************************************************************)
(* config.rs: free functions and serde defaults.                           *)
(***************************************************************************)
\* fault: the separator before the game id is lost
generate_prefix_dir_no_separator(game_id) == "~/Games/umu" \o game_id

generate_prefix_dir(game_id) == "~/Games/umu/" \o game_id

\* fault: the two encodings swapped
bool_to_umu_bool_swapped(b) == IF b THEN "_0_" ELSE "_1_"

bool_to_umu_bool(b) == IF b THEN "_1_" ELSE "_0_"

default_game_id == "0"

\* #[derive(Default)] on Global: every Option is None, the String is empty.
GlobalDefault ==
    [proton |-> None, prefix |-> None, game_id |-> "", proton_verb |-> None,
     store |-> None, default_template |-> None]

\* Deserialising a present [global] table: a missing game_id key takes
\* default_game_id(), every other missing key is None.
DeserializeGlobal(g) ==
    [proton |-> g.proton, prefix |-> g.prefix,
     game_id |-> IF IsSome(g.game_id) THEN Unwrap(g.game_id) ELSE default_game_id,
     proton_verb |-> g.proton_verb, store |-> g.store,
     default_template |-> g.default_template]

\* Deserialising a document: #[serde(default)] on Config.global takes
\* Global::default() when the document has no [global] table.
DeserializeConfig(doc) ==
    [global   |-> IF IsSome(doc.global) THEN DeserializeGlobal(Unwrap(doc.global))
                  ELSE GlobalDefault,
     template |-> doc.template,
     profile  |-> doc.profile]

(***************************************************************************)
(* Results: Ok(value) or Err(kind).                                        *)
(***************************************************************************)
Ok(v) == [ok |-> TRUE, val |-> v, err |-> ""]
Err(e) == [ok |-> FALSE, val |-> None, err |-> e]

\* Config::load: read_to_string(path)? then toml::from_str(..)?
load(src) ==
    IF src.state = "unreadable" THEN Err("Io")
    ELSE IF src.state = "unparsable" THEN Err("Serde")
    ELSE Ok(DeserializeConfig(src))

\* fault: a later source's records are put in front of the accumulated ones
RECURSIVE load_entries_prepend(_, _, _)
load_entries_prepend(cfg, entries, i) ==
    IF i > Len(entries) THEN [cfg |-> cfg, err |-> ""]
    ELSE LET r == load(entries[i]) IN
         IF ~r.ok THEN [cfg |-> cfg, err |-> r.err]
         ELSE load_entries_prepend([cfg EXCEPT !.template = r.val.template \o @,
                                               !.profile  = r.val.profile \o @],
                                   entries, i + 1)

\* The loop of Config::load_dir over the directory entries, from entry i on:
\* each entry is read and parsed, its templates and profiles are appended;
\* the first failing entry returns the error, leaving what was appended.
RECURSIVE load_entries(_, _, _)
load_entries(cfg, entries, i) ==
    IF i > Len(entries) THEN [cfg |-> cfg, err |-> ""]
    ELSE LET r == load(entries[i]) IN
         IF ~r.ok THEN [cfg |-> cfg, err |-> r.err]
         ELSE load_entries([cfg EXCEPT !.template = @ \o r.val.template,
                                       !.profile  = @ \o r.val.profile],
                           entries, i + 1)

\* fault: the existence check is dropped, so a missing path fails in read_dir
load_dir_no_exists_check(cfg, dir) ==
    IF dir.state \in {"missing", "unlistable"} THEN [cfg |-> cfg, err |-> "Io"]
    ELSE load_entries(cfg, dir.entries, 1)

\* Config::load_dir: a path that does not exist is skipped, read_dir(path)?
\* fails on a path that cannot be enumerated, then the loop.
load_dir(cfg, dir) ==
    IF dir.state = "missing" THEN [cfg |-> cfg, err |-> ""]
    ELSE IF dir.state = "unlistable" THEN [cfg |-> cfg, err |-> "Io"]
    ELSE load_entries(cfg, dir.entries, 1)

\* Iterator::find(|r| r.name == name): index of the first match, 0 if none.
FindByName(records, name) ==
    LET hits == {i \in 1..Len(records) : records[i].name = name} IN
    IF hits = {} THEN 0 ELSE CHOOSE i \in hits : \A j \in hits : i <= j

\* fault: the engine path is not taken from the global defaults
resolve_template_no_global_proton(cfg, name) ==
    LET i == FindByName(cfg.template, name) IN
    IF i = 0 THEN Err("TemplateNotFound")
    ELSE LET tmpl == cfg.template[i] IN
         Ok([tmpl EXCEPT
               !.prefix      = OrElse(@, cfg.global.prefix),
               !.proton_verb = OrElse(@, cfg.global.proton_verb),
               !.store       = OrElse(@, cfg.global.store)])

\* Config::resolve_template
resolve_template(cfg, name) ==
    LET i == FindByName(cfg.template, name) IN
    IF i = 0 THEN Err("TemplateNotFound")
    ELSE LET tmpl == cfg.template[i] IN
         Ok([tmpl EXCEPT
               !.prefix      = OrElse(@, cfg.global.prefix),
               !.proton      = OrElse(@, cfg.global.proton),
               !.proton_verb = OrElse(@, cfg.global.proton_verb),
               !.store       = OrElse(@, cfg.global.store)])

\* fault: the global default_template is preferred to the profile's own
template_name_default_first(cfg, prof) ==
    OrElse(cfg.global.default_template, prof.template)

\* Config::resolve_profile, the match on prof.template: the profile's own
\* template, else the global default_template, else none
template_name(cfg, prof) == OrElse(prof.template, cfg.global.default_template)

\* fault: the template's launch verb and store replace the profile's own
populate_template_wins(cfg, prof, tmpl) ==
    LET game_id == OrElse(prof.game_id, Some(cfg.global.game_id)) IN
    [prof EXCEPT
       !.proton      = OrElse(@, tmpl.proton),
       !.proton_verb = OrElse(tmpl.proton_verb, @),
       !.store       = OrElse(tmpl.store, @),
       !.game_id     = game_id,
       !.no_proton   = OrElse(@, tmpl.no_proton),
       !.prefix      = OrElse(OrElse(@, tmpl.prefix),
                              Some(generate_prefix_dir(
                                  UnwrapOr(game_id, cfg.global.game_id))))]

\* Config::resolve_profile, "populate values from template": the clone of
\* the profile with each unset field filled
populate(cfg, prof, tmpl) ==
    LET game_id == OrElse(prof.game_id, Some(cfg.global.game_id)) IN
    [prof EXCEPT
       !.proton      = OrElse(@, tmpl.proton),
       !.proton_verb = OrElse(@, tmpl.proton_verb),
       !.store       = OrElse(@, tmpl.store),
       !.game_id     = game_id,
       !.no_proton   = OrElse(@, tmpl.no_proton),
       !.prefix      = OrElse(OrElse(@, tmpl.prefix),
                              Some(generate_prefix_dir(
                                  UnwrapOr(game_id, cfg.global.game_id))))]

\* Config::resolve_profile
resolve_profile(cfg, name) ==
    LET i == FindByName(cfg.profile, name) IN
    IF i = 0 THEN Err("ProfileNotFound")
    ELSE
      LET prof == cfg.profile[i]
          tmpl_name == template_name(cfg, prof)
      IN
      IF ~IsSome(tmpl_name) THEN Err("NoDefaultTemplate")
      ELSE
        LET t == resolve_template(cfg, Unwrap(tmpl_name)) IN
        IF ~t.ok THEN t
        ELSE Ok(populate(cfg, prof, t.val))

\* The environment part of Profile::run_profile: the ordered list of
\* key/value pairs, or the NoProton error.
build_envs(p) ==
    LET base  == <<(<<"GAMEID", Unwrap(p.game_id)>>)>>
        store == IF IsSome(p.store) THEN <<(<<"STORE", Unwrap(p.store)>>)>> ELSE <<>>
        no_proton == UnwrapOr(p.no_proton, FALSE)
        no_proton_str == bool_to_umu_bool(no_proton)
    IN
    IF no_proton THEN Ok(base \o store \o <<(<<"NO_PROTON", no_proton_str>>)>>)
    ELSE
      LET verb == IF IsSome(p.proton_verb)
                  THEN <<(<<"PROTON_VERB", Unwrap(p.proton_verb)>>)>> ELSE <<>>
      IN
      IF ~IsSome(p.proton) THEN Err("NoProton")
      ELSE
        LET proton == <<(<<"PROTONPATH", Unwrap(p.proton)>>)>>
            prefix == IF IsSome(p.prefix)
                      THEN <<(<<"WINEPREFIX", Unwrap(p.prefix)>>)>>
                      ELSE <<(<<"WINEPREFIX",
                                generate_prefix_dir(UnwrapOr(p.game_id, "0"))>>)>>
        IN Ok(base \o store \o verb \o proton \o prefix)

\* Profile::run_profile with the launcher's outcome: the command handed to
\* the launcher (None when none was built) and the result returned.
run_profile(p, outcome) ==
    LET e == build_envs(p) IN
    IF ~e.ok THEN [command |-> None, result |-> e.err]
    ELSE [command |-> Some([program |-> "umu-run", envs |-> e.val, exe |-> p.exe,
                            args |-> UnwrapOr(p.args, <<>>)]),
          result  |-> IF outcome = "ok" THEN "Ok" ELSE "Io"]

(***************************************************************************)
(* The records of a configuration document (config.rs structs) as sets of  *)
(* values, and the inputs of a run.                                        *)
(***************************************************************************)
OptBool == {None, Some(TRUE), Some(FALSE)}

\* struct Profile; the name is the set Nm
ProfileSet(Nm, T, G, S, P, V, X, A, N) ==
    [template: T, name: Nm, game_id: G, store: S, proton: P, proton_verb: V,
     prefix: X, exe: {"game.exe"}, args: A, no_proton: N]

\* struct Template
TemplateSet(Nm, X, P, V, S, N) ==
    [name: Nm, prefix: X, proton: P, proton_verb: V, store: S, no_proton: N]

\* the keys of a [global] table as written in a document (game_id optional)
GlobalSet(P, X, G, V, S, D) ==
    [proton: P, prefix: X, game_id: G, proton_verb: V, store: S,
     default_template: D]

\* a readable, parsable document: optional [global], [[template]]s, [[profile]]s
Docs(Gs, Ts, Ps) ==
    {[state |-> "ok", global |-> g, template |-> t, profile |-> p] :
        g \in Gs, t \in Ts, p \in Ps}

\* a file that cannot be read, and one that is not a valid document
Unreadable == [state |-> "unreadable", global |-> None, template |-> <<>>, profile |-> <<>>]
Unparsable == [state |-> "unparsable", global |-> None, template |-> <<>>, profile |-> <<>>]

SeqsUpTo(S, n) == UNION {[1..k -> S] : k \in 0..n}
One(S) == {<<x>> : x \in S}

\* the additional-source path: absent, present but not enumerable, or a
\* directory with its entries in enumeration order
DirMissing == [state |-> "missing", entries |-> <<>>]
DirUnlistable == [state |-> "unlistable", entries |-> <<>>]
DirOf(entries) == [state |-> "dir", entries |-> entries]

\* struct Args: -p <profile> and the optional run subcommand with its
\* trailing arguments
ArgvSet(Names, Subs) == [profile: Names, subcommand: Subs]

VARIABLES
    primary,    \* the file named by -c
    dir,        \* the path named by -d
    argv,       \* the parsed command line
    pc,         \* position in Args::run / main
    config,     \* the Config value (None before Config::load returns)
    profile,    \* the resolved profile, Option
    command,    \* the command run_profile handed to the launcher, Option
    result,     \* what run_profile returned, Option
    panic,      \* the error an expect() panicked on, Option
    exit_code   \* the process outcome, Option

vars == <<primary, dir, argv, pc, config, profile, command, result, panic, exit_code>>

InitOver(Inputs) ==
    /\ \E i \in Inputs : primary = i[1] /\ dir = i[2] /\ argv = i[3]
    /\ pc = "start"
    /\ config = None
    /\ profile = None
    /\ command = None
    /\ result = None
    /\ panic = None
    /\ exit_code = None

\* expect() on an Err: the thread panics and the process ends with 101
Panics(e) ==
    /\ panic' = Some(e)
    /\ exit_code' = Some(101)
    /\ pc' = "exited"

\* cli.rs: Config::load(&self.config).expect(..)
Load ==
    /\ pc = "start"
    /\ LET r == load(primary) IN
       IF r.ok
       THEN /\ config' = Some(r.val)
            /\ pc' = "loaded"
            /\ UNCHANGED <<panic, exit_code>>
       ELSE /\ Panics(r.err)
            /\ UNCHANGED config
    /\ UNCHANGED <<primary, dir, argv, profile, command, result>>

\* cli.rs: config.load_dir(&self.config_dir).expect(..)
LoadDir ==
    /\ pc = "loaded"
    /\ LET r == load_dir(Unwrap(config), dir) IN
       /\ config' = Some(r.cfg)
       /\ IF r.err = ""
          THEN pc' = "merged" /\ UNCHANGED <<panic, exit_code>>
          ELSE Panics(r.err)
    /\ UNCHANGED <<primary, dir, argv, profile, command, result>>

\* cli.rs: match &self.subcommand { None => error!(..) }
NoSubcommand ==
    /\ pc = "merged"
    /\ argv.subcommand = None
    /\ pc' = "returned"
    /\ UNCHANGED <<primary, dir, argv, config, profile, command, result, panic, exit_code>>

\* cli.rs: config.resolve_profile(&self.profile).expect(..)
ResolveProfile ==
    /\ pc = "merged"
    /\ IsSome(argv.subcommand)
    /\ LET r == resolve_profile(Unwrap(config), argv.profile) IN
       IF r.ok
       THEN /\ profile' = Some(r.val)
            /\ pc' = "resolved"
            /\ UNCHANGED <<panic, exit_code>>
       ELSE /\ Panics(r.err)
            /\ UNCHANGED profile
    /\ UNCHANGED <<primary, dir, argv, config, command, result>>

\* fault: the profile's args are kept when the trailing remainder is empty
override_keep_args(p, args) ==
    IF args # <<>>
    THEN [p EXCEPT !.exe = args[1],
                   !.args = IF Len(args) > 1 THEN Some(Tail(args)) ELSE @]
    ELSE p

\* cli.rs: if !args.is_empty() { profile.exe = args[0]; profile.args = Some(args[1..]) }
override(p, args) ==
    IF args # <<>>
    THEN [p EXCEPT !.exe = args[1], !.args = Some(Tail(args))]
    ELSE p

OverrideArgs ==
    /\ pc = "resolved"
    /\ profile' = Some(override(Unwrap(profile), Unwrap(argv.subcommand)))
    /\ pc' = "overridden"
    /\ UNCHANGED <<primary, dir, argv, config, command, result, panic, exit_code>>

\* the launcher's behaviour: spawn and wait succeed, or one of them fails
LaunchOutcomes == {"ok", "spawn_failed", "wait_failed"}

\* cli.rs: let _ = profile.run_profile();  the Result is dropped
RunProfile ==
    /\ pc = "overridden"
    /\ \E outcome \in LaunchOutcomes :
         LET r == run_profile(Unwrap(profile), outcome) IN
         /\ command' = r.command
         /\ result' = Some(r.result)
    /\ pc' = "returned"
    /\ UNCHANGED <<primary, dir, argv, config, profile, panic, exit_code>>

\* main.rs: args.run(); Ok(())
Exit ==
    /\ pc = "returned"
    /\ exit_code' = Some(0)
    /\ pc' = "exited"
    /\ UNCHANGED <<primary, dir, argv, config, profile, command, result, panic>>

Next ==
    \/ Load
    \/ LoadDir
    \/ NoSubcommand
    \/ ResolveProfile
    \/ OverrideArgs
    \/ RunProfile
    \/ Exit

(***************************************************************************)
(* Inputs.  Each layer writes its own value for a field, so the layer a    *)
(* resolved value came from can be read off the value.                     *)
(***************************************************************************)
GameArgv == ArgvSet({"game"}, {Some(<<>>)})

\* inputs that take every path of a run once: a primary file that fails, a
\* directory that fails, no subcommand, an override, a missing profile
BaseDoc ==
    Docs({Some(x) : x \in GlobalSet({None}, {None}, {None}, {None}, {None}, {Some("base")})},
         One(TemplateSet({"base"}, {None}, {Some("/t/proton")}, {None}, {None}, {None})),
         One(ProfileSet({"game"}, {None}, {None}, {None}, {None}, {None}, {None},
                        {Some(<<"-p1">>)}, {None})))

BaseInputs ==
    ({Unreadable, Unparsable} \X {DirMissing} \X GameArgv)
    \cup (BaseDoc \X {DirMissing, DirUnlistable, DirOf(<<Unparsable>>)}
                  \X ArgvSet({"game", "ghost"}, {None, Some(<<>>), Some(<<"over.exe", "-x">>)}))

\* the engine family: engine path, launch verb, prefix and skip-engine flag
\* over all their layers
EngineDocs ==
    Docs({None} \cup {Some(x) : x \in GlobalSet(Opt("/g/proton"), Opt("/g/prefix"), {None},
                                                 Opt("g-verb"), {None}, {None})},
         One(TemplateSet({"base"}, Opt("/t/prefix"), Opt("/t/proton"), Opt("t-verb"), {None},
                         OptBool)),
         One(ProfileSet({"game"}, {Some("base")}, {None}, {None}, Opt("/p/proton"),
                        Opt("p-verb"), Opt("/p/prefix"), {None}, OptBool)))

\* the prefix family: prefix and game id over all their layers
PrefixDocs ==
    Docs({None} \cup {Some(x) : x \in GlobalSet({Some("/g/proton")}, Opt("/g/prefix"), Opt("42"),
                                                 {None}, {None}, Opt("base"))},
         One(TemplateSet({"base"}, Opt("/t/prefix"), Opt("/t/proton"), {None}, {None},
                         {None, Some(TRUE)})),
         One(ProfileSet({"game"}, {Some("base")}, Opt("7"), {None}, {None}, {None},
                        Opt("/p/prefix"), {None}, OptBool)))

\* the store family: store and launch verb over all their layers
StoreDocs ==
    Docs({None} \cup {Some(x) : x \in GlobalSet({None}, {None}, {None}, Opt("g-verb"),
                                                 Opt("g-store"), {None})},
         One(TemplateSet({"base"}, {None}, Opt("/t/proton"), Opt("t-verb"), Opt("t-store"),
                         {None})),
         One(ProfileSet({"game"}, {Some("base")}, {None}, Opt("p-store"), {None},
                        Opt("p-verb"), {None}, {None}, OptBool)))

FieldInputs ==
    BaseInputs \cup ((EngineDocs \cup PrefixDocs \cup StoreDocs) \X {DirMissing} \X GameArgv)

\* the template family: which template a profile derives from
TBase == TemplateSet({"base"}, {Some("/base/prefix")}, {Some("/base/proton")},
                     {Some("base-verb")}, {Some("base-store")}, {Some(FALSE)})
TAlt  == TemplateSet({"alt"}, {Some("/alt/prefix")}, {Some("/alt/proton")},
                     {Some("alt-verb")}, {Some("alt-store")}, {Some(TRUE)})
TemplateNames == {None, Some("base"), Some("alt"), Some("nope")}

TemplateDocs ==
    Docs({None} \cup {Some(x) : x \in GlobalSet(Opt("/g/proton"), {None}, {None}, {None}, {None},
                                                 TemplateNames)},
         {<<>>} \cup One(TBase) \cup One(TAlt) \cup (TBase \X TAlt) \cup (TAlt \X TBase),
         One(ProfileSet({"game"}, TemplateNames, {None}, Opt("p-store"), Opt("/p/proton"),
                        {None}, Opt("/p/prefix"), {None}, {None})))

TemplateInputs ==
    BaseInputs \cup (TemplateDocs \X {DirMissing} \X ArgvSet({"game", "ghost"}, {Some(<<>>)}))

\* the merge family: same-named records in the primary document and in
\* the documents of the directory
P1 == ProfileSet({"game"}, {Some("base")}, {None}, {None}, {Some("/p1/proton")}, {None},
                 {None}, {None}, {None})
P2 == ProfileSet({"game"}, {Some("alt")}, {Some("2")}, {None}, {Some("/p2/proton")}, {None},
                 {None}, {None}, {None})
P3 == ProfileSet({"other"}, {None}, {None}, {None}, {None}, {None}, {None}, {None},
                 {Some(TRUE)})
T1 == TemplateSet({"base"}, {None}, {None}, {None}, {Some("t1-store")}, {None})
T2 == TemplateSet({"base"}, {None}, {None}, {None}, {Some("t2-store")}, {None})
T3 == TemplateSet({"alt"}, {None}, {None}, {None}, {Some("t3-store")}, {None})

MergePrimaries ==
    Docs({None} \cup {Some(x) : x \in GlobalSet({None}, {None}, {Some("42")}, {None}, {None},
                                                 {Some("base")})},
         One(T1) \cup (T1 \X T2) \cup One(T3),
         {<<>>} \cup One(P1) \cup One(P3) \cup (P1 \X P2))

ExtraSources ==
    {Unreadable, Unparsable}
    \cup Docs({Some(x) : x \in GlobalSet({Some("/e/proton")}, {Some("/e/prefix")}, {Some("99")},
                                          {None}, {Some("e-store")}, {Some("alt")})},
              One(T2), One(P2))
    \cup Docs({None}, T3 \X T1, P3 \X P1)
    \cup Docs({None}, {<<>>}, P2 \X P2)

Dirs == {DirMissing, DirUnlistable} \cup {DirOf(e) : e \in SeqsUpTo(ExtraSources, MaxSources)}

MergeInputs ==
    BaseInputs \cup (MergePrimaries \X Dirs \X ArgvSet({"game", "other"}, {Some(<<>>)}))

\* the run family: the command line and the outcome of a run
RunDocs ==
    Docs({None} \cup {Some(x) : x \in GlobalSet({None}, {None}, {None}, {None}, {None},
                                                 {Some("base")})},
         One(TemplateSet({"base"}, {None}, Opt("/t/proton"), {None}, {None}, {None})),
         One(ProfileSet({"game"}, {None}, {None}, Opt("p-store"), {None}, Opt("p-verb"),
                        {None}, {None, Some(<<>>), Some(<<"-p1", "-p2">>)}, OptBool)))

TrailingArgs == SeqsUpTo({"over.exe", "-x"}, MaxArgs)

RunInputs ==
    BaseInputs
    \cup (RunDocs \X {DirMissing, DirOf(<<>>)}
                  \X ArgvSet({"game"}, {None} \cup {Some(a) : a \in TrailingArgs}))

Inputs == FieldInputs \cup TemplateInputs \cup MergeInputs \cup RunInputs

Init == InitOver(Inputs)

Spec == Init /\ [][Next]_vars

(***************************************************************************)
(* What the claims speak about, read off the state of a run.               *)
(***************************************************************************)
Cfg == Unwrap(config)
\* the profile has been resolved (it stays in place to the end of the run)
Resolved == IsSome(profile)
\* run_profile has returned
Ran == IsSome(result)
\* the record the profile was resolved from, as written in its document
OwnProfile == Cfg.profile[FindByName(Cfg.profile, argv.profile)]
\* the name of the effective template, and that template as written
EffectiveName == IF IsSome(OwnProfile.template) THEN OwnProfile.template
                 ELSE Cfg.global.default_template
OwnTemplate == Cfg.template[FindByName(Cfg.template, Unwrap(EffectiveName))]
\* the first present value of a field over profile, template, global
FirstPresent(f) ==
    IF IsSome(OwnProfile[f]) THEN OwnProfile[f]
    ELSE IF IsSome(OwnTemplate[f]) THEN OwnTemplate[f]
    ELSE Cfg.global[f]
\* profile no_proton, else template no_proton, else false
EffectiveSkip ==
    IF IsSome(OwnProfile.no_proton) THEN Unwrap(OwnProfile.no_proton)
    ELSE IF IsSome(OwnTemplate.no_proton) THEN Unwrap(OwnTemplate.no_proton)
    ELSE FALSE
\* the [global] table of the primary document as written, if any
WrittenGameId ==
    IF IsSome(primary.global) THEN Unwrap(primary.global).game_id ELSE None

\* C1: run_profile fails with NoProton exactly when the effective
\* skip-engine flag is false and no engine path is set in the profile, its
\* effective template or the global defaults.
C1_MissingEngineIff ==
    Ran =>
      ((Unwrap(result) = "NoProton")
         <=> (~EffectiveSkip
              /\ OwnProfile.proton = None
              /\ OwnTemplate.proton = None
              /\ Cfg.global.proton = None))

C1_Witness ==
    /\ result = Some("NoProton")
    /\ OwnProfile.no_proton = None
    /\ OwnTemplate.no_proton = Some(FALSE)

\* C2: the resolved game id is the profile's own if set, else the global
\* game id as written, else "0" when no source sets one (the [global] table
\* omits game_id or is missing from the document); it is never absent.
C2_GameIdAlwaysResolves ==
    Resolved =>
      Unwrap(profile).game_id =
        IF IsSome(OwnProfile.game_id) THEN OwnProfile.game_id
        ELSE IF IsSome(WrittenGameId) THEN WrittenGameId
        ELSE Some("0")

\* C3: the resolved prefix is the first present of profile prefix,
\* effective template's prefix, global prefix, and otherwise the default
\* path ~/Games/umu/<game id> of the resolved game id (the profile's own
\* game_id if set, else the global game id).
C3_PrefixFallback ==
    Resolved =>
      Unwrap(profile).prefix =
        IF IsSome(FirstPresent("prefix")) THEN FirstPresent("prefix")
        ELSE Some("~/Games/umu/" \o
                  (IF IsSome(OwnProfile.game_id) THEN Unwrap(OwnProfile.game_id)
                   ELSE Cfg.global.game_id))

C3_Witness ==
    /\ Resolved
    /\ FirstPresent("prefix") = None
    /\ Cfg.global.game_id = "42"
    /\ Unwrap(profile).prefix = Some("~/Games/umu/42")

\* C4: engine path, launch verb and store each resolve to the first
\* present value over profile, effective template, global defaults (absent
\* only if all three are unset), a profile-level value is kept, and the
\* skip-engine flag falls back from profile to template only.
C4_MostSpecificWins ==
    Resolved =>
      /\ \A f \in {"proton", "proton_verb", "store"} :
           /\ Unwrap(profile)[f] = FirstPresent(f)
           /\ IsSome(OwnProfile[f]) => Unwrap(profile)[f] = OwnProfile[f]
           /\ (Unwrap(profile)[f] = None) <=>
                (OwnProfile[f] = None /\ OwnTemplate[f] = None /\ Cfg.global[f] = None)
      /\ Unwrap(profile).no_proton =
           (IF IsSome(OwnProfile.no_proton) THEN OwnProfile.no_proton
            ELSE OwnTemplate.no_proton)

C4_Witness ==
    /\ Resolved
    /\ Unwrap(profile).proton = Some("/p/proton")
    /\ OwnTemplate.proton = Some("/t/proton")
    /\ Cfg.global.proton = Some("/g/proton")
    /\ Unwrap(profile).proton_verb = Some("g-verb")
    /\ Unwrap(profile).no_proton = None

\* C5: an existing profile derives from the template its own template field
\* names when set (whatever default_template says), else from the global
\* default_template; resolution fails with NoDefaultTemplate when both are
\* unset and with not-found when the chosen name matches no template,
\* whichever fields the profile sets itself.
C5_TemplateSelection ==
    (pc \notin {"start", "loaded", "merged"} /\ IsSome(config) /\ IsSome(argv.subcommand)
       /\ panic \notin {Some("Io"), Some("Serde")}
       /\ \E i \in 1..Len(Cfg.profile) : Cfg.profile[i].name = argv.profile) =>
      IF EffectiveName = None THEN panic = Some("NoDefaultTemplate") /\ ~Resolved
      ELSE IF \A i \in 1..Len(Cfg.template) : Cfg.template[i].name # Unwrap(EffectiveName)
           THEN panic = Some("TemplateNotFound") /\ ~Resolved
      ELSE /\ Resolved
           /\ panic = None
           /\ OwnTemplate.name = Unwrap(EffectiveName)
           /\ \A f \in {"proton", "store", "prefix", "proton_verb"} :
                OwnProfile[f] = None /\ IsSome(OwnTemplate[f]) =>
                  Unwrap(profile)[f] = OwnTemplate[f]
           /\ OwnProfile.no_proton = None =>
                Unwrap(profile).no_proton = OwnTemplate.no_proton

C5_Witness ==
    /\ Resolved
    /\ OwnProfile.template = Some("alt")
    /\ Cfg.global.default_template = Some("base")
    /\ Unwrap(profile).proton_verb = Some("alt-verb")
    /\ Len(Cfg.template) = 2

\* the records of the additional sources, in enumeration order
RECURSIVE Gather(_, _)
Gather(entries, f) ==
    IF entries = <<>> THEN <<>> ELSE Head(entries)[f] \o Gather(Tail(entries), f)
AllTemplates == primary.template \o Gather(dir.entries, "template")
AllProfiles == primary.profile \o Gather(dir.entries, "profile")
\* record i of records is the first one named name
IsFirstNamed(records, i, name) ==
    /\ records[i].name = name
    /\ \A j \in 1..(i - 1) : records[j].name # name
\* a resolved profile keeps what record rec wrote itself
KeepsOwn(rec) ==
    /\ Unwrap(profile).template = rec.template
    /\ \A f \in {"game_id", "store", "proton", "proton_verb", "prefix", "no_proton"} :
         IsSome(rec[f]) => Unwrap(profile)[f] = rec[f]
\* load_dir has returned / has returned an error
LoadDirReturned == IsSome(config) /\ pc \notin {"start", "loaded"}
LoadDirFailed == LoadDirReturned /\ ~Resolved /\ panic \in {Some("Io"), Some("Serde")}
SomeSourceFails == \E i \in 1..Len(dir.entries) : dir.entries[i].state # "ok"

\* C6: after a successful load and merge the template and profile lists are
\* the primary document's records followed by each additional source's
\* records in enumeration order, duplicates kept, and a lookup by name
\* returns the first record of that name in that order; a profile of the
\* primary document is never shadowed by a later source.
C6_AppendFirstMatch ==
    (LoadDirReturned /\ ~LoadDirFailed) =>
      /\ Cfg.template = AllTemplates
      /\ Cfg.profile = AllProfiles
      /\ Resolved =>
           /\ \E i \in 1..Len(AllProfiles) :
                IsFirstNamed(AllProfiles, i, argv.profile) /\ KeepsOwn(AllProfiles[i])
           /\ \E k \in 1..Len(AllTemplates) :
                /\ IsFirstNamed(AllTemplates, k, Unwrap(EffectiveName))
                /\ (OwnProfile.store = None /\ IsSome(AllTemplates[k].store)) =>
                     Unwrap(profile).store = AllTemplates[k].store
           /\ \A i \in 1..Len(primary.profile) :
                IsFirstNamed(primary.profile, i, argv.profile) =>
                  KeepsOwn(primary.profile[i])

C6_Witness ==
    /\ Resolved
    /\ dir.state = "dir"
    /\ Len(dir.entries) = 2
    /\ Len(primary.profile) = 1
    /\ Len(primary.template) = 1
    /\ \E i \in 1..Len(dir.entries[1].profile) :
         dir.entries[1].profile[i].name = argv.profile
    /\ \E i \in 1..Len(dir.entries[2].template) :
         dir.entries[2].template[i].name = "base"
    /\ Unwrap(profile).proton = Some("/p1/proton")
    /\ Unwrap(profile).store = Some("t1-store")
    /\ Len(Cfg.profile) > 3

\* the environment handed to the launcher
Envs == Unwrap(command).envs
Count(k) == Cardinality({i \in 1..Len(Envs) : Envs[i][1] = k})
Has(k) == Count(k) >= 1
ValueOf(k) == Envs[CHOOSE i \in 1..Len(Envs) : Envs[i][1] = k][2]
EnvKeys == {"GAMEID", "STORE", "NO_PROTON", "PROTON_VERB", "PROTONPATH", "WINEPREFIX"}
SkipEngine == UnwrapOr(Unwrap(profile).no_proton, FALSE)

\* C7: the environment built by run_profile always contains GAMEID, STORE
\* exactly when a store is present; with the skip-engine flag true it is
\* built without an engine path, contains NO_PROTON=_1_ and none of
\* PROTONPATH, WINEPREFIX, PROTON_VERB; with the flag false or absent it
\* contains no NO_PROTON, contains PROTONPATH and WINEPREFIX, and
\* PROTON_VERB exactly when a verb is present; no key appears twice.
C7_Environment ==
    Ran =>
      /\ SkipEngine => IsSome(command) /\ Unwrap(result) # "NoProton"
      /\ IsSome(command) =>
           /\ Has("GAMEID")
           /\ ValueOf("GAMEID") = Unwrap(Unwrap(profile).game_id)
           /\ Has("STORE") <=> IsSome(Unwrap(profile).store)
           /\ \A k \in EnvKeys : Count(k) <= 1
           /\ \A i \in 1..Len(Envs) : Envs[i][1] \in EnvKeys
           /\ IF SkipEngine
              THEN /\ Has("NO_PROTON")
                   /\ ValueOf("NO_PROTON") = "_1_"
                   /\ ~Has("PROTONPATH") /\ ~Has("WINEPREFIX") /\ ~Has("PROTON_VERB")
              ELSE /\ ~Has("NO_PROTON")
                   /\ Has("PROTONPATH") /\ Has("WINEPREFIX")
                   /\ Has("PROTON_VERB") <=> IsSome(Unwrap(profile).proton_verb)

C7_Witness ==
    /\ IsSome(command)
    /\ Unwrap(profile).no_proton = Some(TRUE)
    /\ Unwrap(profile).proton = None
    /\ Unwrap(profile).proton_verb = Some("t-verb")
    /\ Has("NO_PROTON")
    /\ Len(Envs) = 2

\* a fatal error occurred in the run
FatalError ==
    \/ IsSome(panic)
    \/ result \in {Some("NoProton"), Some("Io")}

\* C8: no run in which a fatal error occurred (load or parse failure,
\* profile or template not found, no default template, missing engine path,
\* launcher failing to start or be waited on) ends with outcome zero.
C8_ErrorsEndNonZero ==
    (pc = "exited" /\ FatalError) => exit_code # Some(0)

\* the trailing arguments, and the profile as resolve_profile returned it
Trailing == Unwrap(argv.subcommand)
AsResolved == resolve_profile(Cfg, argv.profile).val
OtherFields == {"name", "template", "game_id", "store", "proton", "proton_verb",
                "prefix", "no_proton"}

\* C9: with trailing arguments the launched executable is their first
\* element and the launched arguments are exactly the rest (the profile's
\* args dropped, also when the rest is empty); without them executable and
\* arguments are the resolved profile's; every other resolved field is
\* left as resolved.
C9_Override ==
    /\ pc \in {"overridden", "returned", "exited"} /\ Resolved =>
         /\ \A f \in OtherFields : Unwrap(profile)[f] = AsResolved[f]
         /\ IF Trailing # <<>>
            THEN /\ Unwrap(profile).exe = Trailing[1]
                 /\ Unwrap(profile).args = Some(SubSeq(Trailing, 2, Len(Trailing)))
            ELSE /\ Unwrap(profile).exe = AsResolved.exe
                 /\ Unwrap(profile).args = AsResolved.args
    /\ IsSome(command) =>
         IF Trailing # <<>>
         THEN /\ Unwrap(command).exe = Trailing[1]
              /\ Unwrap(command).args = SubSeq(Trailing, 2, Len(Trailing))
         ELSE /\ Unwrap(command).exe = AsResolved.exe
              /\ Unwrap(command).args =
                   (IF IsSome(AsResolved.args) THEN Unwrap(AsResolved.args) ELSE <<>>)

C9_Witness ==
    /\ IsSome(command)
    /\ Trailing = <<"over.exe">>
    /\ AsResolved.args = Some(<<"-p1", "-p2">>)
    /\ Unwrap(command).exe = "over.exe"
    /\ Unwrap(command).args = <<>>

\* what a failed merge leaves, what a merge without directory leaves, and
\* the global-defaults record through the merge
MergeFrame ==
    /\ LoadDirFailed => (profile = None /\ command = None /\ result = None
                         /\ exit_code # Some(0))
    /\ dir.state = "missing" =>
         /\ ~LoadDirFailed
         /\ Cfg.template = primary.template
         /\ Cfg.profile = primary.profile
    /\ Cfg.global = load(primary).val.global

\* C10 as claimed: load_dir returns an error exactly when the directory
\* exists and some source in it cannot be read or parsed; then the load is
\* aborted and nothing is resolved or launched; without the directory the
\* merge succeeds and leaves the primary document's records; the
\* global-defaults record is never changed by the merge.
C10_MergeErrorIffSourceFails ==
    LoadDirReturned =>
      /\ LoadDirFailed <=> (dir.state # "missing" /\ SomeSourceFails)
      /\ MergeFrame

\* C10 as amended: load_dir returns an error exactly when the path exists
\* and either cannot be enumerated as a directory or holds a source that
\* cannot be read or parsed; the rest as claimed.
C10_MergeErrorIffPathOrSourceFails ==
    LoadDirReturned =>
      /\ LoadDirFailed <=>
           (dir.state # "missing" /\ (dir.state = "unlistable" \/ SomeSourceFails))
      /\ MergeFrame

C10_Witness ==
    /\ LoadDirFailed
    /\ dir.state = "dir"
    /\ Len(dir.entries) = 2
    /\ dir.entries[1].state = "ok"
    /\ dir.entries[2].state = "unparsable"
    /\ Len(Cfg.profile) > Len(primary.profile)

====
